---- MODULE Spec2Model ----
(***************************************************************************)
(* A model of src/main.py: the DexScreenerScraper class (dedup cache with  *)
(* 24-hour expiry, price-momentum filter, pair-age filter, notification)   *)
(* and the process that constructs it and runs one scrape() pass.          *)
(*                                                                         *)
(* Python strings are sequences of one-character strings; the value None   *)
(* is the one-element sequence <<"None">>, which no string equals because  *)
(* every element of a string is a single character.  The results of the    *)
(* Python predicates are the strings "True" and "False", or the name of    *)
(* the exception the call raises.                                          *)
(***************************************************************************)
EXTENDS Integers, Sequences, FiniteSets, TLC

VARIABLES
    now,          \* datetime.now().timestamp(), in whole seconds
    cache_file,   \* the file sent_tokens.json on disk
    sent_tokens,  \* self.sent_tokens of the running process
    pc,           \* position of the process: "idle", "scraping", "done", "failed"
    i,            \* the loop variable of scrape()
    run,          \* how many processes have been started
    coin_data,    \* the coin_data of the row examined last
    outcome,      \* what the last examination did (results of the calls it made)
    sends,        \* per token address, requests.get calls of the current run
    writes,       \* mark_token_as_sent calls of the current run
    prevNotified  \* token addresses the previous run issued a request for

vars == <<now, cache_file, sent_tokens, pc, i, run, coin_data, outcome,
          sends, writes, prevNotified>>

----------------------------------------------------------------------------
(* Bounds of the model *)

\* rows examined by one pass (the code examines 100, range(1, 101))
MaxRows == 2
\* processes started one after the other
MaxRuns == 2
\* steps the clock takes
MaxTicks == 2

(* Program constants *)

\* 24 * 3600, the dedup window of load_cache and was_token_sent_recently
DedupWindow == 24 * 3600
\* value <= 24 in check_pair_age
MaxAgeHours == 24

----------------------------------------------------------------------------
(* Python values *)

None == <<"None">>

AsciiDigits == {"0", "1", "2", "3", "4", "5", "6", "7", "8", "9"}

\* "sup2" stands for the one character U+00B2 (superscript two): str.isdigit()
\* is true of it and float() rejects it.
Superscript == "sup2"

DigitVal(c) ==
    CASE c = "0" -> 0 [] c = "1" -> 1 [] c = "2" -> 2 [] c = "3" -> 3
      [] c = "4" -> 4 [] c = "5" -> 5 [] c = "6" -> 6 [] c = "7" -> 7
      [] c = "8" -> 8 [] c = "9" -> 9

RECURSIVE DigitsToNat(_)
DigitsToNat(s) ==
    IF s = <<>> THEN 0
    ELSE DigitsToNat(SubSeq(s, 1, Len(s) - 1)) * 10 + DigitVal(s[Len(s)])

RECURSIVE Pow10(_)
Pow10(k) == IF k = 0 THEN 1 ELSE 10 * Pow10(k - 1)

SetMax(S) == CHOOSE x \in S : \A y \in S : y <= x

\* str.replace(ch, ""): every occurrence of the character removed
replace(s, ch) == SelectSeq(s, LAMBDA c : c # ch)

\* str.endswith(ch)
endswith(s, ch) == s # <<>> /\ s[Len(s)] = ch

\* s[:-1]
init_slice(s) == SubSeq(s, 1, Len(s) - 1)

\* str.isdigit(): non-empty and every character a digit character, which
\* includes the superscript digits
isdigit(s) == s # <<>> /\ \A k \in 1..Len(s) : s[k] \in AsciiDigits \cup {Superscript}

\* s.split("/")[-1]: what follows the last "/", the whole string without one
split_last(s) ==
    LET slashes == {k \in 1..Len(s) : s[k] = "/"}
    IN  IF slashes = {} THEN s ELSE SubSeq(s, SetMax(slashes) + 1, Len(s))

\* float(s) on the characters of the model: [-]digits[.digits] or [-].digits,
\* with at least one digit; anything else raises ValueError.  The value is
\* num / den.
float(s) ==
    LET neg   == s # <<>> /\ s[1] = "-"
        body  == IF neg THEN Tail(s) ELSE s
        dots  == {k \in 1..Len(body) : body[k] = "."}
        whole == replace(body, ".")
        valid == /\ whole # <<>>
                 /\ Cardinality(dots) <= 1
                 /\ \A k \in 1..Len(whole) : whole[k] \in AsciiDigits
        frac  == IF dots = {} THEN 0 ELSE Len(body) - SetMax(dots)
    IN  IF valid
        THEN [ok |-> TRUE,
              num |-> (IF neg THEN -1 ELSE 1) * DigitsToNat(whole),
              den |-> Pow10(frac)]
        ELSE [ok |-> FALSE, num |-> 0, den |-> 1]

----------------------------------------------------------------------------
(* The dedup cache *)

\* {} of Python: the mapping with no key
EmptyCache == <<>>

\* What sent_tokens.json can be when it is opened:
\*   "missing"    os.path.exists is false
\*   "unreadable" open() raises
\*   "invalid"    json.load raises (not JSON: empty, truncated, garbage)
\*   "nonobject"  JSON, but a list, number, string or null
\*   "badvalues"  a JSON object with a timestamp that is not a number
\*   "object"     a JSON object of token address -> number, held in data
FileKinds == {"missing", "unreadable", "invalid", "nonobject", "badvalues", "object"}

MissingFile == [kind |-> "missing", data |-> EmptyCache]

\* json.dump(self.sent_tokens, f) of a mapping of str to float
json_dump(cache) == [kind |-> "object", data |-> cache]

\* load_cache that keeps the entries that are exactly 24 hours old
load_cache_inclusive(file, t) ==
    IF file.kind # "object"
    THEN [sent_tokens |-> EmptyCache, raised |-> "none"]
    ELSE [sent_tokens |->
             [token \in {k \in DOMAIN file.data : t - file.data[k] <= DedupWindow}
                |-> file.data[token]],
          raised |-> "none"]

\* load_cache whose except clause catches only the errors of open and
\* json.load: the TypeError and AttributeError of a file that is JSON but no
\* mapping of numbers leave it
load_cache_narrow_except(file, t) ==
    IF file.kind \in {"missing", "unreadable", "invalid"}
    THEN [sent_tokens |-> EmptyCache, raised |-> "none"]
    ELSE IF file.kind \in {"nonobject", "badvalues"}
    THEN [sent_tokens |-> EmptyCache, raised |-> "TypeError"]
    ELSE [sent_tokens |->
             [token \in {k \in DOMAIN file.data : t - file.data[k] < DedupWindow}
                |-> file.data[token]],
          raised |-> "none"]

\* load_cache that starts from an empty cache whatever the file holds
load_cache_forgets(file, t) == [sent_tokens |-> EmptyCache, raised |-> "none"]

\* load_cache: the value self.sent_tokens has when it returns, and the
\* exception that leaves it.  Every exception of the try block (open,
\* json.load, len, .items, the subtraction) is an Exception and ends in the
\* except branch, which assigns {} and raises nothing.
load_cache(file, t) ==
    IF file.kind = "missing"
    THEN [sent_tokens |-> EmptyCache, raised |-> "none"]
    ELSE IF file.kind \in {"unreadable", "invalid", "nonobject", "badvalues"}
    THEN [sent_tokens |-> EmptyCache, raised |-> "none"]
    ELSE [sent_tokens |->
             [token \in {k \in DOMAIN file.data : t - file.data[k] < DedupWindow}
                |-> file.data[token]],
          raised |-> "none"]

\* save_cache: the file after the call.  io is what the file system does:
\* "ok", "open_fails" (open raises, the file is untouched) or "write_fails"
\* (open truncated the file and the write raised).  The exception is logged
\* and swallowed.
save_cache(file, cache, io) ==
    IF io = "ok" THEN json_dump(cache)
    ELSE IF io = "open_fails" THEN file
    ELSE [kind |-> "invalid", data |-> EmptyCache]

\* was_token_sent_recently with <= for <
was_token_sent_recently_inclusive(cache, t, token_address) ==
    IF token_address \in DOMAIN cache
    THEN t - cache[token_address] <= DedupWindow
    ELSE FALSE

was_token_sent_recently(cache, t, token_address) ==
    IF token_address \in DOMAIN cache
    THEN t - cache[token_address] < DedupWindow
    ELSE FALSE

\* mark_token_as_sent without the call of save_cache
mark_token_as_sent_unsaved(cache, file, t, token_address, io) ==
    [sent_tokens |-> [k \in DOMAIN cache \cup {token_address} |->
                        IF k = token_address THEN t ELSE cache[k]],
     cache_file |-> file]

\* mark_token_as_sent: the cache and the file after the call
mark_token_as_sent(cache, file, t, token_address, io) ==
    LET marked == [k \in DOMAIN cache \cup {token_address} |->
                     IF k = token_address THEN t ELSE cache[k]]
    IN  [sent_tokens |-> marked, cache_file |-> save_cache(file, marked, io)]

----------------------------------------------------------------------------
(* The filters *)

price_change_fields ==
    <<"price-change-m5", "price-change-h1", "price-change-h6", "price-change-h24">>

\* the fields of coin_data that decide anything; the others (token_symbol,
\* price, txns, volume, makers, liquidity, market_cap) are only formatted
\* into the message
coin_data_fields == {"ds_url", "pair_age"} \cup
                    {price_change_fields[k] : k \in 1..Len(price_change_fields)}

\* what find_element / get_attribute gives for a field that cannot be read
Missing == <<"NoSuchElement">>

\* get_coin_data: the text of every field, None for a field whose
\* extraction raised
get_coin_data(coin_selector) ==
    [field \in DOMAIN coin_selector |->
        IF coin_selector[field] = Missing THEN None ELSE coin_selector[field]]

\* float(coin_data[field].replace("%", "").replace(",", "")) for one field:
\* "AttributeError" for None (None has no replace), "ValueError" when float
\* rejects the text, "ok" otherwise
price_change_status(text) ==
    IF text = None THEN "AttributeError"
    ELSE IF ~float(replace(replace(text, "%"), ",")).ok THEN "ValueError"
    ELSE "ok"

price_change_value(text) == float(replace(replace(text, "%"), ","))

\* check_price_changes: the list comprehension converts the fields in order
\* and stops at the first exception; ValueError is caught (return False),
\* AttributeError is not.
check_price_changes(cd) ==
    LET n      == Len(price_change_fields)
        txt(k) == cd[price_change_fields[k]]
        bad    == {k \in 1..n : price_change_status(txt(k)) # "ok"}
        first  == CHOOSE k \in bad : \A j \in bad : k <= j
    IN  IF bad # {}
        THEN IF price_change_status(txt(first)) = "AttributeError"
             THEN "AttributeError" ELSE "False"
        ELSE IF \A k \in 1..n : price_change_value(txt(k)).num > 0
             THEN "True" ELSE "False"

\* check_pair_age
check_pair_age(pair_age) ==
    IF pair_age = None \/ pair_age = <<>> THEN "False"
    ELSE IF ~isdigit(init_slice(pair_age)) THEN "False"
    ELSE LET value == float(init_slice(pair_age))
         IN  IF ~value.ok THEN "ValueError"
             ELSE IF \/ endswith(pair_age, "m")
                     \/ (endswith(pair_age, "h") /\ value.num <= MaxAgeHours * value.den)
                  THEN "True" ELSE "False"

----------------------------------------------------------------------------
(* What the page shows *)

Txt_1_2pct  == <<"1", ".", "2", "%">>
Txt_10pct   == <<"1", "0", "%">>
Txt_1234pct == <<"1", ",", "2", "3", "4", "%">>
Txt_0pct    == <<"0", "%">>
Txt_neg     == <<"-", "0", ".", "1", "%">>
Txt_dash    == <<"-">>

Age_5m   == <<"5", "m">>
Age_10m  == <<"1", "0", "m">>
Age_24h  == <<"2", "4", "h">>
Age_25h  == <<"2", "5", "h">>
Age_3d   == <<"3", "d">>
Age_1mo  == <<"1", "m", "o">>
Age_m    == <<"m">>
Age_5    == <<"5">>
Age_neg  == <<"-", "5", "m">>
Age_sup  == <<Superscript, "m">>

Url_A == <<"d", "/", "s", "/", "A">>
Url_B == <<"d", "/", "s", "/", "B">>

\* the token addresses of the rows of the page
TokenAddresses == {split_last(Url_A), split_last(Url_B)}

Row(url, m5, h1, h6, h24, age) ==
    [field \in coin_data_fields |->
        CASE field = "ds_url"           -> url
          [] field = "price-change-m5"  -> m5
          [] field = "price-change-h1"  -> h1
          [] field = "price-change-h6"  -> h6
          [] field = "price-change-h24" -> h24
          [] field = "pair_age"         -> age]

\* the price-change cells of a row: all rising, one falling, one that could
\* not be extracted
Prices_up      == <<Txt_1_2pct, Txt_1_2pct, Txt_1_2pct, Txt_1_2pct>>
Prices_falling == <<Txt_1_2pct, Txt_1_2pct, Txt_neg, Txt_1_2pct>>
Prices_missing == <<Txt_1_2pct, Missing, Txt_1_2pct, Txt_1_2pct>>

PageRow(url, p, age) == Row(url, p[1], p[2], p[3], p[4], age)

\* the rows a pass can find on the page
PageRows ==
    {PageRow(Url_A, Prices_up, Age_10m),
     PageRow(Url_B, Prices_up, Age_10m),
     PageRow(Url_A, Prices_falling, Age_10m),
     PageRow(Url_A, Prices_up, Age_25h),
     PageRow(Url_A, Prices_up, Missing),
     PageRow(Url_B, Prices_missing, Age_10m),
     PageRow(Missing, Prices_up, Age_10m)}

\* the rows the filters are exercised on: every combination of the cell texts
FilterPriceTexts == {Txt_1_2pct, Txt_10pct, Txt_1234pct, Txt_0pct, Txt_neg,
                     Txt_dash, Missing}

FilterAgeTexts == {Age_5m, Age_10m, Age_24h, Age_25h, Age_3d, Age_1mo, Age_m,
                   Age_5, Age_neg, Age_sup, <<>>, Missing}

FilterRows ==
    {Row(Url_A, m5, h1, h6, h24, age) :
        m5 \in FilterPriceTexts, h1 \in FilterPriceTexts, h6 \in FilterPriceTexts,
        h24 \in FilterPriceTexts, age \in FilterAgeTexts}

----------------------------------------------------------------------------
(* The process *)

\* the clock when the model starts; the files of earlier processes hold
\* timestamps before it
BootTime == DedupWindow

ClockSteps == {1, DedupWindow - 1}

\* how many steps of ClockSteps lead from BootTime to t
Ticks(t) == ((t - BootTime) \div (DedupWindow - 1)) + ((t - BootTime) % (DedupWindow - 1))

\* sent_tokens.json as earlier processes and the file system can have left it:
\* absent, damaged, or an object that holds some of the token addresses, the
\* first with a timestamp 24h old and the second with one 24h - 1s old
InitialFiles ==
    {[kind |-> k, data |-> EmptyCache] : k \in FileKinds \ {"object"}}
    \cup {json_dump([a \in S |-> IF a = split_last(Url_A) THEN 0 ELSE 1]) :
             S \in SUBSET TokenAddresses}

NoRow == Row(None, None, None, None, None, None)

NoOutcome ==
    [token_address |-> None, recent |-> FALSE, price |-> "NotCalled",
     age |-> "NotCalled", requested |-> FALSE, raised |-> "none",
     response |-> "none", io |-> "none"]

\* examine without the dedup test of the if statement
examine_no_dedup(cd, cache, t) ==
    IF cd["ds_url"] = None
    THEN [NoOutcome EXCEPT !.raised = "AttributeError"]
    ELSE
    LET price == check_price_changes(cd)
        age   == IF price = "True" THEN check_pair_age(cd["pair_age"])
                 ELSE "NotCalled"
    IN  [token_address |-> split_last(cd["ds_url"]), recent |-> FALSE,
         price |-> price, age |-> age, requested |-> (age = "True"),
         raised |-> IF price = "AttributeError" THEN "AttributeError"
                    ELSE IF age = "ValueError" THEN "ValueError" ELSE "none",
         response |-> "none", io |-> "none"]

\* One iteration of the loop of scrape() on the coin_data cd, up to the call
\* of send_to_telegram: the calls it makes, in order, with the short circuit
\* of "and".  requested says whether send_to_telegram is called, raised which
\* exception leaves the loop.
examine(cd, cache, t) ==
    IF cd["ds_url"] = None
    THEN \* None.split raises AttributeError
         [NoOutcome EXCEPT !.raised = "AttributeError"]
    ELSE
    LET token_address == split_last(cd["ds_url"])
        recent == was_token_sent_recently(cache, t, token_address)
        price  == IF recent THEN "NotCalled" ELSE check_price_changes(cd)
        age    == IF price = "True" THEN check_pair_age(cd["pair_age"])
                  ELSE "NotCalled"
    IN  [token_address |-> token_address, recent |-> recent, price |-> price,
         age |-> age, requested |-> (age = "True"),
         raised |-> IF price = "AttributeError" THEN "AttributeError"
                    ELSE IF age = "ValueError" THEN "ValueError" ELSE "none",
         response |-> "none", io |-> "none"]

\* send_to_telegram that marks the token whatever the request does
send_to_telegram_marks_always(cd, cache, file, t, resp, io) ==
    mark_token_as_sent(cache, file, t, split_last(cd["ds_url"]), "ok")

\* send_to_telegram: the cache and the file after the call.  resp is what
\* the HTTP request does: "ok", or "error" for a RequestException, which is
\* logged and swallowed.
send_to_telegram(cd, cache, file, t, resp, io) ==
    IF resp = "ok"
    THEN mark_token_as_sent(cache, file, t, split_last(cd["ds_url"]), io)
    ELSE [sent_tokens |-> cache, cache_file |-> file]

Init ==
    /\ now = BootTime
    /\ cache_file \in InitialFiles
    /\ sent_tokens = EmptyCache
    /\ pc = "idle"
    /\ i = 0
    /\ run = 0
    /\ coin_data = NoRow
    /\ outcome = NoOutcome
    /\ sends = [a \in TokenAddresses |-> 0]
    /\ writes = 0
    /\ prevNotified = {}

\* __main__: a new process constructs the scraper (__init__ calls load_cache)
\* and enters scrape()
Start ==
    /\ pc \in {"idle", "done", "failed"}
    /\ run < MaxRuns
    /\ \E loaded \in {load_cache(cache_file, now)} :
         /\ sent_tokens' = loaded.sent_tokens
         /\ pc' = IF loaded.raised = "none" THEN "scraping" ELSE "failed"
    /\ i' = 1
    /\ run' = run + 1
    /\ coin_data' = NoRow
    /\ outcome' = NoOutcome
    /\ sends' = [a \in TokenAddresses |-> 0]
    /\ writes' = 0
    /\ prevNotified' = {a \in TokenAddresses : sends[a] > 0}
    /\ UNCHANGED <<now, cache_file>>

\* the body of the for loop of scrape() on row i
ExamineRow(coin_selector) ==
    /\ pc = "scraping"
    /\ \E cd \in {get_coin_data(coin_selector)} :
       /\ coin_data' = cd
       /\ \E r \in {examine(cd, sent_tokens, now)} :
         /\ pc' = IF r.raised # "none" THEN "failed"
                  ELSE IF i = MaxRows THEN "done" ELSE "scraping"
         /\ i' = IF r.raised = "none" /\ i < MaxRows THEN i + 1 ELSE i
         /\ IF r.requested
            THEN \E resp \in {"ok", "error"} :
                 \E io \in IF resp = "ok" THEN {"ok", "open_fails", "write_fails"}
                           ELSE {"none"} :
                 \E after \in {send_to_telegram(cd, sent_tokens, cache_file,
                                                now, resp, io)} :
                   /\ outcome' = [r EXCEPT !.response = resp, !.io = io]
                   /\ sent_tokens' = after.sent_tokens
                   /\ cache_file' = after.cache_file
                   /\ sends' = [sends EXCEPT ![r.token_address] = @ + 1]
                   /\ writes' = IF resp = "ok" THEN writes + 1 ELSE writes
            ELSE /\ outcome' = r
                 /\ UNCHANGED <<sent_tokens, cache_file, sends, writes>>
    /\ UNCHANGED <<now, run, prevNotified>>

\* the browser cannot be started, the page cannot be opened or row i is not on
\* the page: the exception leaves scrape() and ends the process
ScrapeFails ==
    /\ pc = "scraping"
    /\ pc' = "failed"
    /\ UNCHANGED <<now, cache_file, sent_tokens, i, run, coin_data, outcome,
                   sends, writes, prevNotified>>

\* time passes: datetime.now() of a later call is larger (the system clock is
\* taken not to step back)
Tick(d) ==
    /\ Ticks(now + d) <= MaxTicks
    /\ now' = now + d
    /\ UNCHANGED <<cache_file, sent_tokens, pc, i, run, coin_data, outcome,
                   sends, writes, prevNotified>>

Examine == \E coin_selector \in PageRows : ExamineRow(coin_selector)

Next ==
    \/ Start
    \/ Examine
    \/ ScrapeFails
    \/ \E d \in ClockSteps : Tick(d)

Spec == Init /\ [][Next]_vars

----------------------------------------------------------------------------
(* The filters on their own: check_price_changes and check_pair_age called   *)
(* on the coin_data of every row of FilterRows, outside a pass.              *)

InitFilter ==
    /\ now = BootTime
    /\ cache_file = MissingFile
    /\ sent_tokens = EmptyCache
    /\ pc = "filters"
    /\ i = 0
    /\ run = 0
    /\ coin_data \in {get_coin_data(row) : row \in FilterRows}
    /\ outcome = NoOutcome
    /\ sends = [a \in TokenAddresses |-> 0]
    /\ writes = 0
    /\ prevNotified = {}

CallCheckPriceChanges ==
    /\ pc = "filters"
    /\ outcome.price = "NotCalled"
    /\ \E result \in {check_price_changes(coin_data)} :
         outcome' = [outcome EXCEPT !.price = result,
                        !.raised = IF result = "AttributeError" THEN result ELSE @]
    /\ UNCHANGED <<now, cache_file, sent_tokens, pc, i, run, coin_data, sends,
                   writes, prevNotified>>

CallCheckPairAge ==
    /\ pc = "filters"
    /\ outcome.age = "NotCalled"
    /\ \E result \in {check_pair_age(coin_data["pair_age"])} :
         outcome' = [outcome EXCEPT !.age = result,
                        !.raised = IF result = "ValueError" THEN result ELSE @]
    /\ UNCHANGED <<now, cache_file, sent_tokens, pc, i, run, coin_data, sends,
                   writes, prevNotified>>

NextFilter == CallCheckPriceChanges \/ CallCheckPairAge

SpecFilter == InitFilter /\ [][NextFilter]_vars

----------------------------------------------------------------------------
(* Properties *)

\* the step is one of Examine: only Examine moves the loop on, ends the pass
\* as done or ends it with an exception recorded in outcome
ExamineStep ==
    /\ pc = "scraping"
    /\ now' = now
    /\ (i' # i \/ pc' = "done" \/ outcome'.raised # "none")

\* the token address of the row examined by the step
ExaminedAddress == split_last(coin_data'["ds_url"])

\* the row examined by the step passes both filters
Passes == /\ check_price_changes(coin_data') = "True"
          /\ check_pair_age(coin_data'["pair_age"]) = "True"

\* the file holds a timestamp for token address a that is under 24 hours old at t
HoldsFresh(file, a, t) ==
    /\ file.kind = "object"
    /\ a \in DOMAIN file.data
    /\ t - file.data[a] < 86400

\* C1: a notification request is issued for a row only if, when the row is
\* examined, its token address is not in the dedup window and
\* check_price_changes and check_pair_age are both true of it; and then one
\* request is issued, for that row's address.
C1_SendOnlyIfEligible ==
    [][(\E a \in TokenAddresses : sends'[a] > sends[a]) =>
         /\ Examine
         /\ coin_data'["ds_url"] # None
         /\ ~was_token_sent_recently(sent_tokens, now, ExaminedAddress)
         /\ Passes
         /\ sends' = [sends EXCEPT ![ExaminedAddress] = @ + 1]]_vars

\* a request was issued for a row while the cache held another token
C1_Witness ==
    /\ outcome.requested
    /\ sends[outcome.token_address] = 1
    /\ \E b \in DOMAIN sent_tokens : b # outcome.token_address

\* C3: was_token_sent_recently(id) is true exactly when the cache holds a
\* timestamp for id that is less than 86400 seconds before now (false for an
\* absent id and for an age of 86400 or more), and a row that is skipped
\* because of it leaves the cache and the file as they were.
C3_RecentIffUnderWindow ==
    [][(ExamineStep /\ coin_data'["ds_url"] # None) =>
         /\ outcome'.recent =
              (\E id \in DOMAIN sent_tokens :
                  id = ExaminedAddress /\ now - sent_tokens[id] < 86400)
         /\ outcome'.recent => (sent_tokens' = sent_tokens /\ cache_file' = cache_file)
         /\ outcome'.recent => ~outcome'.requested]_vars

\* a token whose timestamp is exactly 86400 seconds old was looked up and
\* found not recent
C3_Witness ==
    /\ outcome.token_address \in DOMAIN sent_tokens
    /\ now - sent_tokens[outcome.token_address] = 86400
    /\ ~outcome.recent
    /\ outcome.price = "False"

\* C4: when the delivery fails, the pass goes on, and neither the cache nor
\* the file changes; the cache and the file change during a pass only in an
\* examination whose delivery succeeded.
C4_FailedSendLeavesNoMark ==
    [][/\ (ExamineStep /\ outcome'.response = "error") =>
            /\ sent_tokens' = sent_tokens
            /\ cache_file' = cache_file
            /\ outcome'.raised = "none"
            /\ pc' = IF i = MaxRows THEN "done" ELSE "scraping"
       /\ (pc = "scraping" /\ (sent_tokens' # sent_tokens \/ cache_file' # cache_file)) =>
            (ExamineStep /\ outcome'.response = "ok")]_vars

\* a delivery failed, the token is in neither the cache nor the file, and the
\* pass goes on
C4_Witness ==
    /\ outcome.response = "error"
    /\ outcome.token_address \notin DOMAIN sent_tokens
    /\ outcome.token_address \notin DOMAIN cache_file.data
    /\ pc = "scraping"

\* the mapping the file holds, the empty one when it holds none
StoredMapping(file) == IF file.kind = "object" THEN file.data ELSE EmptyCache

\* the cache with token address a set to time t
Marked(cache, a, t) ==
    [k \in DOMAIN cache \cup {a} |-> IF k = a THEN t ELSE cache[k]]

\* C5 as claimed: after every mark_token_as_sent(id) the cache maps id to now
\* and the file equals the whole cache, and after every change of the cache
\* the file holds the same mapping as the cache.
C5_FileAlwaysEqualsCache ==
    [][/\ (ExamineStep /\ outcome'.response = "ok") =>
            /\ sent_tokens' = Marked(sent_tokens, ExaminedAddress, now)
            /\ cache_file' = json_dump(sent_tokens')
       /\ (sent_tokens' # sent_tokens) => StoredMapping(cache_file') = sent_tokens']_vars

\* C5, amended: after every mark_token_as_sent(id) the cache maps id to now and
\* is otherwise unchanged; the file equals the whole cache when the write
\* succeeds, is untouched when open fails and is no JSON when the write
\* fails; load_cache does not write its pruned cache back.
C5_FileEqualsCacheAfterWrite ==
    [][/\ (ExamineStep /\ outcome'.response = "ok") =>
            /\ sent_tokens' = Marked(sent_tokens, ExaminedAddress, now)
            /\ outcome'.io = "ok" => cache_file' = json_dump(sent_tokens')
            /\ outcome'.io = "open_fails" => cache_file' = cache_file
            /\ outcome'.io = "write_fails" => cache_file'.kind = "invalid"
       /\ Start => cache_file' = cache_file]_vars

\* a second token was marked and the file holds the whole cache
C5_Witness ==
    /\ outcome.io = "ok"
    /\ Cardinality(DOMAIN sent_tokens) = 2
    /\ sent_tokens[outcome.token_address] = now
    /\ cache_file = json_dump(sent_tokens)

\* C6: load_cache of a well-formed file leaves in the cache exactly the
\* entries of the file whose age is under 86400 seconds, with their
\* timestamps.
C6_LoadPrunesExactlyExpired ==
    [][(Start /\ cache_file.kind = "object") =>
         /\ DOMAIN sent_tokens' =
              {token \in DOMAIN cache_file.data : now - cache_file.data[token] < 86400}
         /\ \A token \in DOMAIN sent_tokens' :
              sent_tokens'[token] = cache_file.data[token]
         /\ pc' = "scraping"]_vars

\* a load kept one entry of the file and pruned another
C6_Witness ==
    /\ pc = "scraping" /\ i = 1 /\ outcome = NoOutcome
    /\ cache_file.kind = "object"
    /\ Cardinality(DOMAIN cache_file.data) = 2
    /\ Cardinality(DOMAIN sent_tokens) = 1

\* C10: load_cache of a missing, unreadable or corrupt file raises nothing and
\* leaves an empty cache, and the pass starts with no token recently sent.
C10_CorruptFileIsEmptyCache ==
    [][(Start /\ cache_file.kind \in
                   {"missing", "unreadable", "invalid", "nonobject", "badvalues"}) =>
         /\ sent_tokens' = EmptyCache
         /\ pc' = "scraping"
         /\ \A a \in TokenAddresses : ~was_token_sent_recently(sent_tokens', now, a)]_vars

\* a process started on a file that is JSON but no mapping of numbers, and
\* its pass issued a request
C10_Witness ==
    /\ run = 1
    /\ cache_file.kind \in {"nonobject", "badvalues"}
    /\ outcome.requested
    /\ pc \in {"scraping", "done"}

\* the row examined by the step is a coin with all-positive price changes, a
\* passing pair age and an address absent from the cache
FreshCoin ==
    /\ ExamineStep
    /\ coin_data'["ds_url"] # None
    /\ ExaminedAddress \notin DOMAIN sent_tokens
    /\ Passes

IsPositiveNumber(text) ==
    /\ text # None
    /\ float(replace(replace(text, "%"), ",")).ok
    /\ float(replace(replace(text, "%"), ",")).num > 0

\* C7: for every combination of the four price-change fields, texts or None,
\* check_price_changes returns True when all four are numbers above zero and
\* returns False otherwise; it raises nothing.
C7_PriceCheckFailsClosed ==
    outcome.price # "NotCalled" =>
        outcome.price =
            IF \A k \in 1..Len(price_change_fields) :
                  IsPositiveNumber(coin_data[price_change_fields[k]])
            THEN "True" ELSE "False"

\* the pair age is decimal digits followed by one unit letter, and the unit is
\* "m", or "h" with a value of at most 24
IsRecentAge(pair_age) ==
    /\ pair_age # None
    /\ Len(pair_age) >= 2
    /\ \A k \in 1..(Len(pair_age) - 1) : pair_age[k] \in AsciiDigits
    /\ \/ pair_age[Len(pair_age)] = "m"
       \/ /\ pair_age[Len(pair_age)] = "h"
          /\ DigitsToNat(SubSeq(pair_age, 1, Len(pair_age) - 1)) <= 24

\* C8: for every pair age, check_pair_age returns True when the age is digits
\* and a unit that is "m", or "h" with at most 24, and returns False
\* otherwise (other units, empty, None, a prefix that is no number); it raises
\* nothing.
C8_PairAgeNeverRaises ==
    outcome.age # "NotCalled" =>
        outcome.age = IF IsRecentAge(coin_data["pair_age"]) THEN "True" ELSE "False"

\* C9: a field of a row whose extraction failed is None in coin_data and does
\* not end the pass: no exception leaves the examination of the row.
C9_MissingFieldDoesNotAbort ==
    (coin_data # NoRow /\ \E field \in coin_data_fields : coin_data[field] = None) =>
        outcome.raised = "none"

====
